---- MODULE Spec2Model ----
(***************************************************************************)
(* Model of utils/dependency_management.py (aiida-core): the commands that *)
(* generate, validate and rewrite the dependency manifests.  The state is  *)
(* the content of the files the commands read and write plus the outcome   *)
(* of the last command.  Text is modelled as a sequence of one-character   *)
(* strings so that split, lower, strip, sorting and comparison are         *)
(* computed the way Python computes them.                                  *)
(***************************************************************************)
EXTENDS Integers, Sequences, FiniteSets, TLC

VARIABLES
    setup_json,        \* setup.json: install_requires, extras_require, python_requires, classifiers
    requirements_txt,  \* the REQUIREMENTS file given to `update`: a sequence of lines
    environment_yml,   \* environment.yml: [comment, doc], doc the sequence of its YAML documents
    rtd_txt,           \* docs/requirements_for_rtd.txt: [lines]
    pyproject_toml,    \* pyproject.toml: [exists, requires]
    prior,             \* the files commands write, as they were when the last writing command started
    result,            \* outcome of the last command
    pc                 \* position inside a command that runs in several steps

vars == <<setup_json, requirements_txt, environment_yml, rtd_txt, pyproject_toml, prior, result, pc>>

----------------------------------------------------------------------------
(* Text: Python str as a sequence of characters.                           *)

\* The printable ASCII characters in code-point order, from 32 (space) to 126 (~);
\* the double quote, the backslash and the backtick, which no text of the model holds, are spelled out.
Ascii ==
    <<" ","!","dquote","#","$","%","&","'","(",")","*","+",",","-",".","/",
      "0","1","2","3","4","5","6","7","8","9",":",";","<","=",">","?","@",
      "A","B","C","D","E","F","G","H","I","J","K","L","M","N","O","P","Q","R","S","T","U","V","W","X","Y","Z",
      "[","backslash","]","^","_","backtick",
      "a","b","c","d","e","f","g","h","i","j","k","l","m","n","o","p","q","r","s","t","u","v","w","x","y","z",
      "{","|","}","~">>

AsciiIndex ==
    [c \in {Ascii[i] : i \in 1..Len(Ascii)} |-> CHOOSE i \in 1..Len(Ascii) : Ascii[i] = c]

\* ord(c)
Ord(c) ==
    IF c = "\n" THEN 10 ELSE IF c = "\t" THEN 9 ELSE 31 + AsciiIndex[c]

\* chr(n) for printable n
Chr(n) ==
    Ascii[n - 31]

\* the characters with code points 65..90, 97..122 and 48..57
UpperChars == {Chr(n) : n \in 65..90}
LowerChars == {Chr(n) : n \in 97..122}
DigitChars == {Chr(n) : n \in 48..57}

IsUpper(c) == c \in UpperChars
IsLowerCh(c) == c \in LowerChars
IsDigit(c) == c \in DigitChars
IsSpace(c) == c \in {" ", "\n", "\t"}

LowerOfUpper ==
    [c \in UpperChars |-> Chr(Ord(c) + 32)]

\* str.lower()
Lower(s) ==
    [i \in 1..Len(s) |-> IF IsUpper(s[i]) THEN LowerOfUpper[s[i]] ELSE s[i]]

\* s[i:] in Python terms, with TLA+ positions (1-based, inclusive)
From(s, i) ==
    SubSeq(s, i, Len(s))

\* s.startswith(p)
StartsWith(s, p) ==
    Len(s) >= Len(p) /\ SubSeq(s, 1, Len(p)) = p

\* the least position at which p occurs in s, 0 when it does not: s.find(p) + 1
RECURSIVE FindFrom(_, _, _)
FindFrom(s, p, i) ==
    IF i + Len(p) - 1 > Len(s) THEN 0
    ELSE IF SubSeq(s, i, i + Len(p) - 1) = p THEN i
    ELSE FindFrom(s, p, i + 1)

Find(s, p) ==
    FindFrom(s, p, 1)

\* p in s
Contains(s, p) ==
    Find(s, p) # 0

\* s.split(sep): non-overlapping occurrences, left to right
RECURSIVE Split(_, _)
Split(s, sep) ==
    LET i == Find(s, sep)
    IN  IF i = 0 THEN <<s>>
        ELSE <<SubSeq(s, 1, i - 1)>> \o Split(From(s, i + Len(sep)), sep)

\* s.strip()
RECURSIVE LStrip(_)
LStrip(s) ==
    IF s # <<>> /\ IsSpace(s[1]) THEN LStrip(Tail(s)) ELSE s

RECURSIVE RStrip(_)
RStrip(s) ==
    IF s # <<>> /\ IsSpace(s[Len(s)]) THEN RStrip(SubSeq(s, 1, Len(s) - 1)) ELSE s

Strip(s) ==
    LStrip(RStrip(s))

\* a < b for Python str: lexicographic on code points
RECURSIVE StrLess(_, _)
StrLess(a, b) ==
    IF b = <<>> THEN FALSE
    ELSE IF a = <<>> THEN TRUE
    ELSE IF a[1] = b[1] THEN StrLess(Tail(a), Tail(b))
    ELSE Ord(a[1]) < Ord(b[1])

\* a >= b for Python str
StrGE(a, b) ==
    ~StrLess(a, b)

\* sorted(S) for a set of str
RECURSIVE Sorted(_)
Sorted(S) ==
    IF S = {} THEN <<>>
    ELSE LET m == CHOOSE x \in S : \A y \in S : x = y \/ StrLess(x, y)
         IN  <<m>> \o Sorted(S \ {m})

Range(q) ==
    {q[i] : i \in 1..Len(q)}

\* the sequences over S of length at most n
SeqsUpTo(S, n) ==
    UNION {[1..k -> S] : k \in 0..n}

EQEQ == <<"=","=">>
SEMI == <<";">>

----------------------------------------------------------------------------
(* Program constants.                                                      *)

DEFAULT_EXCLUDE_LIST ==
    << <<"d","j","a","n","g","o">>,
       <<"c","i","r","c","u","s">>,
       <<"n","u","m","p","y">>,
       <<"p","y","m","a","t","g","e","n">>,
       <<"a","s","e">>,
       <<"m","o","n","t","y">>,
       <<"p","y","y","a","m","l">> >>

\* lines 129 and 214: the extras that count for the documentation requirements
RTD_EXTRAS ==
    <<"testing", "docs", "rest", "atomic_tools">>

\* the extras of setup.json
ExtraKeys ==
    Range(RTD_EXTRAS)

\* the value None of Python
None ==
    "None"

----------------------------------------------------------------------------
(* unrestrict                                                              *)

\* lines 290-293: list(exclude).extend(DEFAULT_EXCLUDE_LIST) evaluates to None
EffectiveExclude(exclude) ==
    IF exclude # <<>> THEN None ELSE DEFAULT_EXCLUDE_LIST

\* lines 296-300 and 306-310: one requirement, with a usable exclude list
UnrestrictOne(requirement, exclude) ==
    IF requirement \in Range(exclude) \/ Contains(requirement, SEMI) \/ ~Contains(requirement, EQEQ)
    THEN requirement
    ELSE Split(requirement, EQEQ)[1]

UnrestrictList(requirements, exclude) ==
    [i \in 1..Len(requirements) |-> UnrestrictOne(requirements[i], exclude)]

\* `requirement in exclude` raises TypeError when exclude is None, on the
\* first requirement the loops meet
UnrestrictRaises(setup, exclude) ==
    /\ exclude = None
    /\ \/ setup.install_requires # <<>>
       \/ \E k \in DOMAIN setup.extras_require : setup.extras_require[k] # <<>>

\* lines 286-310: the clone that is written
UnrestrictClone(setup, exclude) ==
    IF exclude = None THEN setup
    ELSE [setup EXCEPT
            !.install_requires = UnrestrictList(setup.install_requires, exclude),
            !.extras_require = [k \in DOMAIN setup.extras_require |->
                                    UnrestrictList(setup.extras_require[k], exclude)]]

----------------------------------------------------------------------------
(* update                                                                  *)

\* the greatest position at which p occurs in s, 0 when it does not
RFind(s, p) ==
    LET hits == {i \in 1..(Len(s) - Len(p) + 1) : SubSeq(s, i, i + Len(p) - 1) = p}
    IN  IF hits = {} THEN 0 ELSE CHOOSE i \in hits : \A j \in hits : i >= j

\* the line cut at its last "==" only, as rsplit('==', 1) would cut it, so that
\* a line with two "==" is no longer skipped
ParseFreezeLineRsplit(line) ==
    LET s == Strip(line)
        i == RFind(s, EQEQ)
    IN  IF i = 0 THEN <<>> ELSE << <<SubSeq(s, 1, i - 1), From(s, i + 2)>> >>

\* lines 326-331: one line of the REQUIREMENTS file; <<>> when the unpacking
\* raises ValueError (not exactly two parts)
ParseFreezeLine(line) ==
    LET parts == Split(Strip(line), EQEQ)
    IN  IF Len(parts) = 2 THEN << <<parts[1], parts[2]>> >> ELSE <<>>

RECURSIVE PackageVersions(_)
PackageVersions(lines) ==
    IF lines = <<>> THEN <<>>
    ELSE ParseFreezeLine(lines[1]) \o PackageVersions(Tail(lines))

\* lines 336-341: the inner for/else over package_versions
RECURSIVE UpdateOne(_, _)
UpdateOne(requirement, package_versions) ==
    IF package_versions = <<>> THEN requirement
    ELSE LET package == package_versions[1][1]
             version == package_versions[1][2]
         IN  IF Lower(requirement) = Lower(package)
             THEN Lower(package) \o EQEQ \o version
             ELSE UpdateOne(requirement, Tail(package_versions))

\* lines 333-343 and 346-356: the set of updated requirements, sorted
UpdateList(requirements, package_versions) ==
    Sorted({UpdateOne(requirements[i], package_versions) : i \in 1..Len(requirements)})

\* lines 322-356
UpdateSetup(setup, lines) ==
    LET package_versions == PackageVersions(lines)
    IN  [setup EXCEPT
            !.install_requires = UpdateList(setup.install_requires, package_versions),
            !.extras_require = [k \in DOMAIN setup.extras_require |->
                                    UpdateList(setup.extras_require[k], package_versions)]]

----------------------------------------------------------------------------
(* The files of the rewrite commands.                                      *)

\* get_setup_json(): the content of setup.json
GetSetupJson ==
    setup_json

\* write_setup_json(data): setup.json holds data afterwards
WriteSetupJson(data) ==
    setup_json' = data

MaxReqs == 2
MaxSnap == 2

\* requirement strings of setup.json
RewriteReqPool ==
    { <<"s","i","x","=","=","1",".","1","2",".","0">>,                                    \* six==1.12.0
      <<"s","i","x">>,                                                                    \* six
      <<"d","j","a","n","g","o","=","=","1",".","1","1">>,                                \* django==1.11
      <<"n","u","m","p","y",">","=","1",".","1","7">>,                                    \* numpy>=1.17
      <<"a","s","e","=","=","3",";","o","s","_","n","a","m","e","=","=","'","n","t","'">> \* ase==3;os_name=='nt'
    }

\* the lists of the extra "docs"
RewriteExtraLists ==
    { <<>>,
      << <<"s","i","x">> >>,
      << <<"d","j","a","n","g","o","=","=","1",".","1","1">>, <<"S","i","x">> >> }

\* lines of the REQUIREMENTS file, as readlines() gives them
FreezeLinePool ==
    { <<"s","i","x","=","=","1",".","1","6",".","0","\n">>,              \* six==1.16.0
      <<"S","i","x","=","=","1",".","1","5",".","0","\n">>,              \* Six==1.15.0
      <<"s","i","x","=","=","1",".","1","6",".","0","=","=","x","\n">>   \* six==1.16.0==x
    }

\* the values of --exclude
ExcludeArgs ==
    { <<>>,
      << <<"s","i","x">>, <<"n","u","m","p","y">> >> }

\* an empty file: no comment line and no document
NoEnvironment == [comment |-> FALSE, doc |-> <<>>]
NoRtd == <<>>
NoPyproject == [exists |-> FALSE, requires |-> <<>>]
NoResult == [cmd |-> "none", kind |-> "none", detail |-> <<>>]

\* the files as a command finds them
Files ==
    [setup_json |-> setup_json, environment_yml |-> environment_yml, rtd_txt |-> rtd_txt]

\* extras_require with the given list under "docs" and nothing under the other extras
OnlyDocs(list) ==
    [k \in ExtraKeys |-> IF k = "docs" THEN list ELSE <<>>]
NoPythonRequires == <<>>

InitRewrite ==
    /\ setup_json \in [install_requires : SeqsUpTo(RewriteReqPool, MaxReqs),
                       extras_require : {OnlyDocs(l) : l \in RewriteExtraLists},
                       python_requires : {NoPythonRequires},
                       classifiers : {{}}]
    /\ requirements_txt \in SeqsUpTo(FreezeLinePool, MaxSnap)
    /\ environment_yml = NoEnvironment
    /\ rtd_txt = NoRtd
    /\ pyproject_toml = NoPyproject
    /\ prior = Files
    /\ result = NoResult
    /\ pc = "idle"

\* lines 277-312: the command `unrestrict --exclude ...`
Unrestrict(exclude_option) ==
    LET setup == GetSetupJson
        exclude == EffectiveExclude(exclude_option)
    IN  /\ pc = "idle"
        /\ prior' = Files
        /\ IF UnrestrictRaises(setup, exclude)
           THEN /\ result' = [cmd |-> "unrestrict", kind |-> "TypeError", detail |-> exclude_option]
                /\ UNCHANGED setup_json
           ELSE /\ WriteSetupJson(UnrestrictClone(setup, exclude))
                /\ result' = [cmd |-> "unrestrict", kind |-> "OK", detail |-> exclude_option]
        /\ UNCHANGED <<requirements_txt, environment_yml, rtd_txt, pyproject_toml, pc>>

\* lines 315-358: the command `update REQUIREMENTS`
Update ==
    LET setup == GetSetupJson
    IN  /\ pc = "idle"
        /\ prior' = Files
        /\ WriteSetupJson(UpdateSetup(setup, requirements_txt))
        /\ result' = [cmd |-> "update", kind |-> "OK", detail |-> <<>>]
        /\ UNCHANGED <<requirements_txt, environment_yml, rtd_txt, pyproject_toml, pc>>

NextRewrite ==
    \/ \E exclude_option \in ExcludeArgs : Unrestrict(exclude_option)
    \/ Update

SpecRewrite ==
    InitRewrite /\ [][NextRewrite]_vars

----------------------------------------------------------------------------
(* Requirement names, as Requirement.parse reads them.                     *)

IsNameCh(c) ==
    IsUpper(c) \/ IsLowerCh(c) \/ IsDigit(c) \/ c \in {"-", "_", "."}

\* the length of the longest prefix of s made of name characters
RECURSIVE NameLen(_)
NameLen(s) ==
    IF s # <<>> /\ IsNameCh(s[1]) THEN 1 + NameLen(Tail(s)) ELSE 0

\* Requirement.parse(s).name
NameOf(s) ==
    SubSeq(s, 1, NameLen(s))

----------------------------------------------------------------------------
(* Properties of the rewrite commands.                                     *)

GroupKeys ==
    {"install_requires"} \cup ExtraKeys

Group(setup, g) ==
    IF g = "install_requires" THEN setup.install_requires ELSE setup.extras_require[g]

\* the exclude set the caller of unrestrict means: the names given, and the default
MeantExclude(exclude_option) ==
    Range(exclude_option) \cup Range(DEFAULT_EXCLUDE_LIST)

\* C1: after unrestrict has written the manifest, every requirement whose
\* package name is in the exclude set stands in the output as in the input,
\* in the mandatory group and in every extra group.
C1_ExcludedKept ==
    (result.cmd = "unrestrict" /\ result.kind = "OK") =>
        \A g \in GroupKeys : \A i \in 1..Len(Group(prior.setup_json, g)) :
            NameOf(Group(prior.setup_json, g)[i]) \in MeantExclude(result.detail) =>
                Group(setup_json, g)[i] = Group(prior.setup_json, g)[i]

\* C2: unrestrict called with one or more --exclude names completes and
\* writes the manifest transformed under the union of those names and the
\* default list.
C2_ExcludeExtendsDefault ==
    (result.cmd = "unrestrict" /\ result.detail # <<>>) =>
        /\ result.kind = "OK"
        /\ setup_json = UnrestrictClone(prior.setup_json, result.detail \o DEFAULT_EXCLUDE_LIST)

\* the entries of the snapshot whose name matches the package name of r, case-insensitively
MatchingEntries(r, lines) ==
    LET pv == PackageVersions(lines)
    IN  {pv[i] : i \in {j \in 1..Len(pv) : Lower(pv[j][1]) = Lower(NameOf(r))}}

\* C3: after update, every requirement whose package name matches a snapshot
\* entry case-insensitively stands in its group as the lower-cased name pinned
\* to a matching entry's version, also when it carried a pin before;
\* requirements without a matching entry are kept.
C3_UpdatePinsByName ==
    result.cmd = "update" =>
        \A g \in GroupKeys : \A r \in Range(Group(prior.setup_json, g)) :
            LET entries == MatchingEntries(r, requirements_txt)
            IN  IF entries = {}
                THEN r \in Range(Group(setup_json, g))
                ELSE \E e \in entries :
                        Lower(e[1]) \o EQEQ \o e[2] \in Range(Group(setup_json, g))

\* C4: update is idempotent for a fixed snapshot: on the manifest that update
\* has written, update with the same snapshot writes the same manifest, group
\* by group and in the same order.
C4_UpdateIdempotent ==
    result.cmd = "update" =>
        UpdateSetup(setup_json, requirements_txt) = setup_json

\* C4 witness: update replaced a requirement of a manifest that was unsorted or
\* held duplicates, under a snapshot with several entries for one name.
C4_Witness ==
    /\ result.cmd = "update"
    /\ \E r \in Range(setup_json.install_requires) : r \notin Range(prior.setup_json.install_requires)
    /\ prior.setup_json.install_requires # Sorted(Range(prior.setup_json.install_requires))
    /\ \E i, j \in 1..Len(PackageVersions(requirements_txt)) :
           /\ i # j
           /\ Lower(PackageVersions(requirements_txt)[i][1]) = Lower(PackageVersions(requirements_txt)[j][1])

----------------------------------------------------------------------------
(* The texts the files of the environment commands are made of.            *)

\* requirement strings of install_requires
SetupReqPool ==
    { <<"s","i","x","=","=","1",".","1","2",".","0">>,                                          \* six==1.12.0
      <<"p","s","y","c","o","p","g","2","-","b","i","n","a","r","y","=","=","2",".","8">>,      \* psycopg2-binary==2.8
      <<"p","y","b","l","a","k","e","2","=","=","1",".","1">>                                   \* pyblake2==1.1
    }

\* python_requires with the versions V for which
\* 'Programming Language :: Python :: V' is a classifier of setup.json
InterpreterPool ==
    { << <<">","=","3",".","8">>, { <<"3",".","7">> } >>,                                   \* >=3.8; 3.7
      << <<">","=","3",".","5">>, { <<"3",".","6">>, <<"3",".","7">>, <<"3",".","1","0">> } >>,      \* >=3.5; 3.6, 3.7, 3.10
      << <<">","=","3",".","1","0">>, { <<"3",".","6">>, <<"3",".","7">>, <<"3",".","1","0">> } >>   \* >=3.10; 3.6, 3.7, 3.10
    }

\* the python entries of a hand-written environment.yml
PythonEntries ==
    { <<>>,
      << <<"p","y","t","h","o","n","~","=","3",".","7">> >>,                   \* python~=3.7
      << <<"p","y","t","h","o","n","~","=","3",".","6">> >>,                   \* python~=3.6
      << <<"p","y","t","h","o","n","~","=","3",".","1","0">> >>,               \* python~=3.10
      << <<"p","y","t","h","o","n">> >>,                                       \* python
      << <<"p","y","t","h","o","n",">","=","3",".","7",",","<","4">> >>,       \* python>=3.7,<4
      << <<"p","y","t","h","o","n","~","=","3",".","7">>,
         <<"p","y","t","h","o","n","~","=","3",".","6">> >>                    \* both
    }

\* the other entries of a hand-written environment.yml
EnvDepPool ==
    { <<"s","i","x","=","=","1",".","1","2",".","0">>,           \* six==1.12.0
      <<"p","s","y","c","o","p","g","2","=","=","2",".","8">>,   \* psycopg2==2.8
      <<"n","u","m","p","y","=","=","1",".","1","7">>            \* numpy==1.17
    }

\* requirement strings of install_requires for validate-all
AllReqPool ==
    { <<"s","i","x","=","=","1",".","1","2",".","0">>,      \* six==1.12.0
      <<"r","e","e","n","t","r","y","~","=","1",".","3">>   \* reentry~=1.3
    }

----------------------------------------------------------------------------
(* pkg_resources.Requirement: parse, str, equality.  The texts of the model *)
(* carry no extras and no URL, so a requirement is its name, its set of     *)
(* specifiers and its marker.                                               *)

COMMA == <<",">>
PYTHON == <<"p","y","t","h","o","n">>

IsOpCh(c) ==
    c \in {"=", "<", ">", "~", "!"}

RECURSIVE OpLen(_)
OpLen(s) ==
    IF s # <<>> /\ IsOpCh(s[1]) THEN 1 + OpLen(Tail(s)) ELSE 0

\* one specifier "op version" as <<op, version>>
ParseSpecifier(s) ==
    LET t == Strip(s)
    IN  <<SubSeq(t, 1, OpLen(t)), Strip(From(t, OpLen(t) + 1))>>

\* the specifier set of the text between the name and the marker
ParseSpecifiers(s) ==
    IF Strip(s) = <<>> THEN {}
    ELSE {ParseSpecifier(x) : x \in Range(Split(s, COMMA))}

IsSafeCh(c) ==
    IsUpper(c) \/ IsLowerCh(c) \/ IsDigit(c) \/ c = "."

RECURSIVE DropUnsafe(_)
DropUnsafe(s) ==
    IF s # <<>> /\ ~IsSafeCh(s[1]) THEN DropUnsafe(Tail(s)) ELSE s

\* pkg_resources.safe_name: runs of characters outside [A-Za-z0-9.] become one "-"
RECURSIVE SafeName(_)
SafeName(s) ==
    IF s = <<>> THEN <<>>
    ELSE IF IsSafeCh(s[1]) THEN <<s[1]>> \o SafeName(Tail(s))
    ELSE <<"-">> \o SafeName(DropUnsafe(s))

\* Requirement.parse(text), computed
ParseText(text) ==
    LET t == Strip(text)
        name == NameOf(t)
        rest == From(t, Len(name) + 1)
        semi == Find(rest, SEMI)
        spectext == IF semi = 0 THEN rest ELSE SubSeq(rest, 1, semi - 1)
        marker == IF semi = 0 THEN <<>> ELSE Strip(From(rest, semi + 1))
    IN  [name |-> name,
         key |-> Lower(SafeName(name)),
         specs |-> ParseSpecifiers(spectext),
         marker |-> marker]

\* the requirement texts of the pools, and python_requires with 'python' before it (line 153)
PoolTexts ==
    SetupReqPool \cup EnvDepPool \cup AllReqPool
        \cup UNION {Range(entries) : entries \in PythonEntries}
        \cup {PYTHON \o interpreter[1] : interpreter \in InterpreterPool}

\* ParseText of the texts of the pools, computed once
ParsedPoolTexts ==
    [t \in PoolTexts |-> ParseText(t)]

\* Requirement.parse(text)
ParseRequirement(text) ==
    IF text \in PoolTexts THEN ParsedPoolTexts[text] ELSE ParseText(text)

\* ",".join(q)
RECURSIVE Join(_, _)
Join(sep, q) ==
    IF q = <<>> THEN <<>>
    ELSE IF Len(q) = 1 THEN q[1]
    ELSE q[1] \o sep \o Join(sep, Tail(q))

\* str(requirement): the name, the specifiers sorted, the marker
StrRequirement(req) ==
    req.name \o Join(COMMA, Sorted({sp[1] \o sp[2] : sp \in req.specs}))
             \o (IF req.marker = <<>> THEN <<>> ELSE <<";"," ">> \o req.marker)

\* Requirement.hashCmp: what == and hash() of two requirements compare
HashCmp(req) ==
    <<req.key, req.specs, req.marker>>

\* {Requirement.parse(d) for d in texts}: of equal requirements the first stays
RECURSIVE RequirementSet(_)
RequirementSet(texts) ==
    IF texts = <<>> THEN {}
    ELSE LET before == RequirementSet(SubSeq(texts, 1, Len(texts) - 1))
             last == ParseRequirement(texts[Len(texts)])
         IN  IF \E e \in before : HashCmp(e) = HashCmp(last) THEN before ELSE before \cup {last}

----------------------------------------------------------------------------
(* Translation to conda names, and the patterns conda ignores.             *)

\* lines 33-36, in the order the dict holds them
SETUPTOOLS_CONDA_MAPPINGS ==
    << << <<"p","s","y","c","o","p","g","2","-","b","i","n","a","r","y">>, <<"p","s","y","c","o","p","g","2">> >>,
       << <<"g","r","a","p","h","v","i","z">>, <<"p","y","t","h","o","n","-","g","r","a","p","h","v","i","z">> >> >>

\* lines 38-40
CONDA_IGNORE ==
    << <<"p","y","b","l","a","k","e","2">> >>

\* re.match(pattern, text) for a pattern without special characters
ReMatch(pattern, text) ==
    StartsWith(text, pattern)

\* re.sub(pattern, replacement, text): every occurrence, left to right
RECURSIVE ReSub(_, _, _)
ReSub(pattern, replacement, text) ==
    LET i == Find(text, pattern)
    IN  IF i = 0 THEN text
        ELSE SubSeq(text, 1, i - 1) \o replacement
                \o ReSub(pattern, replacement, From(text, i + Len(pattern)))

\* lines 43-47
RECURSIVE SetuptoolsToCondaFrom(_, _)
SetuptoolsToCondaFrom(req, mappings) ==
    IF mappings = <<>> THEN req
    ELSE IF ReMatch(mappings[1][1], StrRequirement(req))
         THEN ParseRequirement(ReSub(mappings[1][1], mappings[1][2], StrRequirement(req)))
         ELSE SetuptoolsToCondaFrom(req, Tail(mappings))

SetuptoolsToConda(req) ==
    SetuptoolsToCondaFrom(req, SETUPTOOLS_CONDA_MAPPINGS)

\* any(re.match(ignore, str(req)) for ignore in CONDA_IGNORE)
CondaIgnored(req) ==
    \E i \in 1..Len(CONDA_IGNORE) : ReMatch(CONDA_IGNORE[i], StrRequirement(req))

----------------------------------------------------------------------------
(* generate-environment-yml                                                *)

\* line 100
CONDA_PYTHON == <<"p","y","t","h","o","n","~","=","3",".","7">>

\* lines 95-104: the dependencies of the generated environment
RECURSIVE CondaRequiresOf(_)
CondaRequiresOf(texts) ==
    IF texts = <<>> THEN <<>>
    ELSE LET req == ParseRequirement(texts[1])
         IN  IF req.name = PYTHON \/ CondaIgnored(req)
             THEN CondaRequiresOf(Tail(texts))
             ELSE <<StrRequirement(SetuptoolsToConda(req))>> \o CondaRequiresOf(Tail(texts))

CondaRequires(setup) ==
    <<CONDA_PYTHON>> \o CondaRequiresOf(setup.install_requires)

\* lines 106-118: the file as written: the usage comment, then the document
EnvironmentDocument(setup) ==
    [name |-> "aiida",
     channels |-> <<"conda-forge", "defaults">>,
     dependencies |-> CondaRequires(setup)]

----------------------------------------------------------------------------
(* validate-environment-yml                                                *)

Outcome(kind, detail) ==
    [kind |-> kind, detail |-> detail]

\* set.discard in the place of set.remove: a requirement that is not there is
\* passed over in silence
DiscardNeverRaises(pool, req) ==
    FALSE

\* line 191: set.remove raises KeyError when no equal requirement is there
RemoveRaisesKeyError(pool, req) ==
    ~\E e \in pool : HashCmp(e) = HashCmp(req)

PoolRemove(pool, req) ==
    {e \in pool : HashCmp(e) # HashCmp(req)}

\* lines 186-203.  Line 200 joins Requirement objects, which raises TypeError
\* before the ClickException is built.
RECURSIVE ConsumeRequirements(_, _)
ConsumeRequirements(reqs, pool) ==
    IF reqs = <<>>
    THEN IF pool # {}
         THEN Outcome("TypeError", {StrRequirement(e) : e \in pool})
         ELSE Outcome("OK", <<>>)
    ELSE IF CondaIgnored(reqs[1])
         THEN ConsumeRequirements(Tail(reqs), pool)
         ELSE IF RemoveRaisesKeyError(pool, SetuptoolsToConda(reqs[1]))
              THEN Outcome("MissingRequirement", StrRequirement(reqs[1]))
              ELSE ConsumeRequirements(Tail(reqs), PoolRemove(pool, SetuptoolsToConda(reqs[1])))

\* lines 168-181 for the specifier the loop meets first, then lines 183-203
CheckWithSpecifier(setup, spec, pool) ==
    LET python_requires == ParseRequirement(PYTHON \o setup.python_requires)
        install_requirements == [i \in 1..Len(setup.install_requires) |->
                                    ParseRequirement(setup.install_requires[i])]
    IN  IF spec[2] \notin setup.classifiers
        THEN Outcome("InconsistentInterpreterSpec", <<"classifier", spec[2]>>)
        ELSE IF ~\E other \in python_requires.specs : StrGE(spec[2], other[2])
             THEN Outcome("InconsistentInterpreterSpec", <<"python_requires", spec[2]>>)
             ELSE ConsumeRequirements(install_requirements, pool)

\* lines 159-203 for the python dependency the loop meets first
CheckWithPython(setup, python_dependency, conda_dependencies) ==
    IF python_dependency.specs = {}
    THEN {Outcome("MissingInterpreterSpec", <<"specifier">>)}
    ELSE {CheckWithSpecifier(setup, spec, conda_dependencies \ {python_dependency}) :
            spec \in python_dependency.specs}

\* lines 149-203 once the dependencies are read: every outcome the iteration
\* order of the set of dependencies and of the specifier set allows
ValidateOutcomes(setup, conda_dependencies) ==
    LET pythons == {d \in conda_dependencies : d.name = PYTHON}
    IN  IF pythons = {}
        THEN {Outcome("MissingInterpreterSpec", <<"python">>)}
        ELSE UNION {CheckWithPython(setup, d, conda_dependencies) : d \in pythons}

\* lines 155-156: yaml.load gives None for a file without a document, and
\* None['dependencies'] raises TypeError
ValidateEnvironmentOutcomes(setup, file) ==
    IF file.doc = <<>>
    THEN {Outcome("TypeError", <<"yaml">>)}
    ELSE ValidateOutcomes(setup, RequirementSet(file.doc[1].dependencies))

----------------------------------------------------------------------------
(* The files of the environment commands.                                  *)

MaxInstall == 2
MaxDeps == 2

EnvironmentFile(dependencies) ==
    [comment |-> TRUE,
     doc |-> << [name |-> "aiida", channels |-> <<"conda-forge", "defaults">>, dependencies |-> dependencies] >>]

InitValidate ==
    /\ \E install \in SeqsUpTo(SetupReqPool, MaxInstall) : \E interpreter \in InterpreterPool :
           setup_json = [install_requires |-> install,
                         extras_require |-> OnlyDocs(<<>>),
                         python_requires |-> interpreter[1],
                         classifiers |-> interpreter[2]]
    /\ \E py \in PythonEntries : \E deps \in SeqsUpTo(EnvDepPool, MaxDeps) :
           environment_yml = EnvironmentFile(py \o deps)
    /\ requirements_txt = <<>>
    /\ rtd_txt = NoRtd
    /\ pyproject_toml = NoPyproject
    /\ prior = Files
    /\ result = NoResult
    /\ pc = "idle"

\* lines 81-118: the command generate-environment-yml, from start to end
GenerateEnvironmentYml ==
    /\ pc = "idle"
    /\ environment_yml' = [comment |-> TRUE, doc |-> <<EnvironmentDocument(setup_json)>>]
    /\ result' = [cmd |-> "generate-environment-yml", kind |-> "OK", detail |-> <<>>]
    /\ prior' = Files
    /\ UNCHANGED <<setup_json, requirements_txt, rtd_txt, pyproject_toml, pc>>

\* lines 139-203: the command validate-environment-yml
ValidateEnvironmentYml ==
    /\ pc = "idle"
    /\ \E o \in ValidateEnvironmentOutcomes(setup_json, environment_yml) :
           result' = [cmd |-> "validate-environment-yml", kind |-> o.kind, detail |-> o.detail]
    /\ UNCHANGED <<setup_json, requirements_txt, environment_yml, rtd_txt, pyproject_toml, prior, pc>>

NextValidate ==
    \/ GenerateEnvironmentYml
    \/ ValidateEnvironmentYml

SpecValidate ==
    InitValidate /\ [][NextValidate]_vars

----------------------------------------------------------------------------
(* Versions as the packaging rules order them: by components, numerically.  *)

DOT == <<".">>

\* int(text) for a text of digits
RECURSIVE IntOf(_)
IntOf(digits) ==
    IF digits = <<>> THEN 0
    ELSE 10 * IntOf(SubSeq(digits, 1, Len(digits) - 1)) + (Ord(digits[Len(digits)]) - 48)

\* "3.10" as <<3, 10>>
Release(version) ==
    LET parts == Split(version, DOT)
    IN  [i \in 1..Len(parts) |-> IntOf(parts[i])]

Component(release, i) ==
    IF i <= Len(release) THEN release[i] ELSE 0

\* a < b as versions: the first differing component decides, missing ones count 0
VersionLess(a, b) ==
    LET ra == Release(a)
        rb == Release(b)
        n == IF Len(ra) > Len(rb) THEN Len(ra) ELSE Len(rb)
    IN  \E i \in 1..n :
            /\ Component(ra, i) < Component(rb, i)
            /\ \A j \in 1..(i - 1) : Component(ra, j) = Component(rb, j)

\* the versions a specifier set gives as lower bounds
LowerBounds(specs) ==
    {sp[2] : sp \in {x \in specs : x[1] \in {<<">","=">>, <<"~","=">>, <<"=","=">>, <<">">>}}}

----------------------------------------------------------------------------
(* Properties of validate-environment-yml and generate-environment-yml.    *)

\* the requirements of the environment.yml in the state
CondaDependencies ==
    IF environment_yml.doc = <<>> THEN {} ELSE RequirementSet(environment_yml.doc[1].dependencies)

Validated ==
    result.cmd = "validate-environment-yml"

Consistent(setup, conda_dependencies) ==
    ValidateOutcomes(setup, conda_dependencies) = {Outcome("OK", <<>>)}

\* the requirements an environment.yml of the model may hold besides python
OrdinaryDependencies ==
    {ParseRequirement(t) : t \in EnvDepPool}

\* C5: with one requirement more in environment.yml than a consistent pair
\* has, validation ends with the ExtraRequirement error that lists it.
C5_ExtraReported ==
    Validated =>
        \A x \in CondaDependencies :
            (x.name # PYTHON /\ Consistent(setup_json, CondaDependencies \ {x})) =>
                /\ result.kind = "ExtraRequirement"
                /\ result.detail = {StrRequirement(x)}

\* the reference requirements that are not ignored, translated
TranslatedReference(setup) ==
    LET reqs == [i \in 1..Len(setup.install_requires) |-> ParseRequirement(setup.install_requires[i])]
    IN  [i \in {j \in 1..Len(reqs) : ~CondaIgnored(reqs[j])} |-> HashCmp(SetuptoolsToConda(reqs[i]))]

\* C6: (a) validation succeeds only when the translated, non-ignored
\* requirements of setup.json match one by one the entries of environment.yml
\* left after the python entry is taken out; (b) with one requirement less in
\* environment.yml than a consistent pair has, validation ends with the
\* MissingRequirement error, which names the requirement of setup.json whose
\* translation is the one taken away.
C6_MissingReported ==
    Validated =>
        /\ result.kind = "OK" =>
              \E d \in CondaDependencies :
                  /\ d.name = PYTHON
                  /\ \A e \in CondaDependencies \ {d} :
                        Cardinality({i \in DOMAIN TranslatedReference(setup_json) :
                                        TranslatedReference(setup_json)[i] = HashCmp(e)}) = 1
                  /\ \A i \in DOMAIN TranslatedReference(setup_json) :
                        \E e \in CondaDependencies \ {d} : HashCmp(e) = TranslatedReference(setup_json)[i]
        /\ \A c \in OrdinaryDependencies :
              ((~\E e \in CondaDependencies : HashCmp(e) = HashCmp(c))
                    /\ Consistent(setup_json, CondaDependencies \cup {c})) =>
                  /\ result.kind = "MissingRequirement"
                  /\ HashCmp(SetuptoolsToConda(ParseRequirement(result.detail))) = HashCmp(c)
                  /\ result.detail \in Range(setup_json.install_requires)

\* C6 witness: validation ran on an environment.yml that lacks the translation
\* of psycopg2-binary, which a consistent pair would hold, and reported it.
C6_Witness ==
    /\ Validated
    /\ result.kind = "MissingRequirement"
    /\ ParseRequirement(result.detail).name # SetuptoolsToConda(ParseRequirement(result.detail)).name
    /\ Consistent(setup_json, CondaDependencies \cup {SetuptoolsToConda(ParseRequirement(result.detail))})
    /\ Cardinality(CondaDependencies) >= 2

\* C7: the environment.yml that generate-environment-yml derives from
\* setup.json passes validation against that setup.json.
C7_GeneratedValidates ==
    result.cmd = "generate-environment-yml" =>
        ValidateEnvironmentOutcomes(setup_json, environment_yml) = {Outcome("OK", <<>>)}

\* C10: validation fails with InconsistentInterpreterSpec when the lower
\* bound of the python entry of environment.yml is, as a version, below the
\* minimum python_requires declares, and does not fail on that comparison
\* when it is not below.
C10_InterpreterBound ==
    LET pythons == {d \in CondaDependencies : d.name = PYTHON}
        minimums == LowerBounds(ParseRequirement(PYTHON \o setup_json.python_requires).specs)
    IN  (Validated /\ Cardinality(pythons) = 1) =>
            \A d \in pythons : \A lb \in LowerBounds(d.specs) : \A min \in minimums :
                IF VersionLess(lb, min)
                THEN result.kind = "InconsistentInterpreterSpec"
                ELSE ~(result.kind = "InconsistentInterpreterSpec" /\ result.detail[1] = "python_requires")

----------------------------------------------------------------------------
(* generate-rtd-reqs, and the two generate commands step by step: a file    *)
(* opened with mode 'w' is empty from the open on, and holds what has been  *)
(* written so far when the process dies.                                   *)

NEWLINE == <<"\n">>

\* lines 126-130 and 211-215: the requirements of install_requires and of the
\* four extras, as texts in the order the set receives them
RECURSIVE ExtrasTexts(_, _)
ExtrasTexts(setup, keys) ==
    IF keys = <<>> THEN <<>>
    ELSE setup.extras_require[keys[1]] \o ExtrasTexts(setup, Tail(keys))

RtdRequirements(setup) ==
    RequirementSet(setup.install_requires \o ExtrasTexts(setup, RTD_EXTRAS))

\* line 136: '\n'.join(sorted(map(str, install_requirements)))
RtdText(setup) ==
    Join(NEWLINE, Sorted({StrRequirement(r) : r \in RtdRequirements(setup)}))

\* the complete environment.yml of generate-environment-yml
GeneratedEnvironment(setup) ==
    [comment |-> TRUE, doc |-> <<EnvironmentDocument(setup)>>]

\* files that may be there before a generate command runs
OldEnvironments ==
    { NoEnvironment,
      EnvironmentFile(<< <<"p","y","t","h","o","n","~","=","3",".","6">> >>),
      EnvironmentFile(<< <<"p","y","t","h","o","n","~","=","3",".","7">>,
                         <<"s","i","x","=","=","1",".","1","2",".","0">> >>) }

OldRtdTexts ==
    { <<>>,
      <<"s","i","x","=","=","1",".","1","2",".","0">> }

InitWrite ==
    /\ \E install \in SeqsUpTo(SetupReqPool, MaxInstall) :
           setup_json = [install_requires |-> install,
                         extras_require |-> OnlyDocs(<<>>),
                         python_requires |-> <<">","=","3",".","5">>,
                         classifiers |-> { <<"3",".","7">> }]
    /\ environment_yml \in OldEnvironments
    /\ rtd_txt \in OldRtdTexts
    /\ requirements_txt = <<>>
    /\ pyproject_toml = NoPyproject
    /\ prior = Files
    /\ result = NoResult
    /\ pc = "idle"

\* lines 92-114: setup.json is read, then open(file_path, 'w') empties the file
GenerateEnvironmentOpen ==
    /\ pc = "idle"
    /\ prior' = Files
    /\ environment_yml' = NoEnvironment
    /\ pc' = "environment_opened"
    /\ result' = [cmd |-> "generate-environment-yml", kind |-> "running", detail |-> <<>>]
    /\ UNCHANGED <<setup_json, requirements_txt, rtd_txt, pyproject_toml>>

\* line 115
GenerateEnvironmentWriteComment ==
    /\ pc = "environment_opened"
    /\ environment_yml' = [environment_yml EXCEPT !.comment = TRUE]
    /\ pc' = "environment_comment"
    /\ UNCHANGED <<setup_json, requirements_txt, rtd_txt, pyproject_toml, prior, result>>

\* lines 116-118
GenerateEnvironmentDump ==
    /\ pc = "environment_comment"
    /\ environment_yml' = [environment_yml EXCEPT !.doc = <<EnvironmentDocument(setup_json)>>]
    /\ pc' = "idle"
    /\ result' = [result EXCEPT !.kind = "OK"]
    /\ UNCHANGED <<setup_json, requirements_txt, rtd_txt, pyproject_toml, prior>>

\* lines 126-135: setup.json is read, then open(..., 'w') empties the file
GenerateRtdOpen ==
    /\ pc = "idle"
    /\ prior' = Files
    /\ rtd_txt' = <<>>
    /\ pc' = "rtd_opened"
    /\ result' = [cmd |-> "generate-rtd-reqs", kind |-> "running", detail |-> <<>>]
    /\ UNCHANGED <<setup_json, requirements_txt, environment_yml, pyproject_toml>>

\* line 136
GenerateRtdWrite ==
    /\ pc = "rtd_opened"
    /\ rtd_txt' = RtdText(setup_json)
    /\ pc' = "idle"
    /\ result' = [result EXCEPT !.kind = "OK"]
    /\ UNCHANGED <<setup_json, requirements_txt, environment_yml, pyproject_toml, prior>>

\* the process dies, or a write raises, between two steps of a command
Crash ==
    /\ pc # "idle"
    /\ pc' = "idle"
    /\ result' = [result EXCEPT !.kind = "Killed"]
    /\ UNCHANGED <<setup_json, requirements_txt, environment_yml, rtd_txt, pyproject_toml, prior>>

NextWrite ==
    \/ GenerateEnvironmentOpen
    \/ GenerateEnvironmentWriteComment
    \/ GenerateEnvironmentDump
    \/ GenerateRtdOpen
    \/ GenerateRtdWrite
    \/ Crash

SpecWrite ==
    InitWrite /\ [][NextWrite]_vars

\* C9: whatever happens during a command, a file it writes holds either all of
\* what it held when the command started or all of the new content.
C9_WritesAllOrNothing ==
    /\ environment_yml \in {prior.environment_yml, GeneratedEnvironment(prior.setup_json)}
    /\ rtd_txt \in {prior.rtd_txt, RtdText(prior.setup_json)}

----------------------------------------------------------------------------
(* validate-rtd-reqs, validate-pyproject-toml and validate-all.            *)

REENTRY == <<"r","e","e","n","t","r","y">>

\* the lines a text file gives when iterated
FileLines(text) ==
    IF text = <<>> THEN <<>>
    ELSE LET pieces == Split(text, NEWLINE)
         IN  IF pieces[Len(pieces)] = <<>> THEN SubSeq(pieces, 1, Len(pieces) - 1) ELSE pieces

\* lines 206-224: the assert compares two sets of requirements
ValidateRtd(setup, text) ==
    IF {HashCmp(r) : r \in RequirementSet(FileLines(text))} = {HashCmp(r) : r \in RtdRequirements(setup)}
    THEN Outcome("OK", <<>>)
    ELSE Outcome("AssertionError", <<>>)

\* lines 236-241: the first requirement named reentry, << >> when the loop finds none
RECURSIVE FindReentry(_)
FindReentry(texts) ==
    IF texts = <<>> THEN <<>>
    ELSE IF ParseRequirement(texts[1]).name = REENTRY
         THEN <<ParseRequirement(texts[1])>>
         ELSE FindReentry(Tail(texts))

\* lines 227-254
ValidatePyproject(setup, file) ==
    LET reentry == FindReentry(setup.install_requires)
    IN  IF reentry = <<>>
        THEN Outcome("MissingBuildRequirement", <<"setup.json">>)
        ELSE IF ~file.exists
             THEN Outcome("MissingBuildRequirement", <<"pyproject.toml">>)
             ELSE IF ~\E i \in 1..Len(file.requires) :
                        HashCmp(ParseRequirement(file.requires[i])) = HashCmp(reentry[1])
                  THEN Outcome("MissingBuildRequirement", <<"requires">>)
                  ELSE Outcome("OK", <<>>)

\* lines 272-274: the commands validate-all invokes, in this order
INVOKE_ORDER ==
    <<"validate-environment-yml", "validate-pyproject-toml", "validate-rtd-reqs">>

\* the outcomes the named validation can have on the files of the state
ValidationOutcomes(command) ==
    IF command = "validate-environment-yml"
    THEN ValidateEnvironmentOutcomes(setup_json, environment_yml)
    ELSE IF command = "validate-pyproject-toml"
         THEN {ValidatePyproject(setup_json, pyproject_toml)}
         ELSE {ValidateRtd(setup_json, rtd_txt)}

\* the exception of the invoked command caught and dropped: validate-all goes on
ContinuesAlways(outcome) ==
    TRUE

\* an exception of the invoked command ends validate-all
ContinuesAfter(outcome) ==
    outcome.kind = "OK"

\* lines 257-274: validate-all invokes its i-th command; result.detail lists
\* the commands invoked so far
ValidateAllInvoke(i) ==
    /\ IF i = 1 THEN pc = "idle" ELSE pc = INVOKE_ORDER[i]
    /\ \E o \in ValidationOutcomes(INVOKE_ORDER[i]) :
           LET invoked == (IF i = 1 THEN <<>> ELSE result.detail) \o <<INVOKE_ORDER[i]>>
           IN  IF ContinuesAfter(o)
               THEN IF i = Len(INVOKE_ORDER)
                    THEN /\ pc' = "idle"
                         /\ result' = [cmd |-> "validate-all", kind |-> o.kind, detail |-> invoked]
                    ELSE /\ pc' = INVOKE_ORDER[i + 1]
                         /\ result' = [cmd |-> "validate-all", kind |-> "running", detail |-> invoked]
               ELSE /\ pc' = "idle"
                    /\ result' = [cmd |-> "validate-all", kind |-> o.kind, detail |-> invoked]
    /\ UNCHANGED <<setup_json, requirements_txt, environment_yml, rtd_txt, pyproject_toml, prior>>

AllEnvironments ==
    { EnvironmentFile(<< <<"p","y","t","h","o","n","~","=","3",".","7">> >>),
      EnvironmentFile(<< <<"p","y","t","h","o","n","~","=","3",".","7">>,
                         <<"r","e","e","n","t","r","y","~","=","1",".","3">> >>),
      EnvironmentFile(<< <<"p","y","t","h","o","n","~","=","3",".","7">>,
                         <<"r","e","e","n","t","r","y","~","=","1",".","3">>,
                         <<"s","i","x","=","=","1",".","1","2",".","0">> >>) }

AllRtdTexts ==
    { <<>>,
      <<"r","e","e","n","t","r","y","~","=","1",".","3">>,
      <<"r","e","e","n","t","r","y","~","=","1",".","3","\n","s","i","x","=","=","1",".","1","2",".","0">> }

AllPyprojects ==
    { NoPyproject,
      [exists |-> TRUE, requires |-> << <<"s","e","t","u","p","t","o","o","l","s",">","=","4","0">> >>],
      [exists |-> TRUE, requires |-> << <<"s","e","t","u","p","t","o","o","l","s",">","=","4","0">>,
                                        <<"r","e","e","n","t","r","y","~","=","1",".","3">> >>] }

InitAll ==
    /\ \E install \in SeqsUpTo(AllReqPool, MaxInstall) :
           setup_json = [install_requires |-> install,
                         extras_require |-> OnlyDocs(<<>>),
                         python_requires |-> <<">","=","3",".","5">>,
                         classifiers |-> { <<"3",".","7">> }]
    /\ environment_yml \in AllEnvironments
    /\ rtd_txt \in AllRtdTexts
    /\ pyproject_toml \in AllPyprojects
    /\ requirements_txt = <<>>
    /\ prior = Files
    /\ result = NoResult
    /\ pc = "idle"

NextAll ==
    \E i \in 1..Len(INVOKE_ORDER) : ValidateAllInvoke(i)

SpecAll ==
    InitAll /\ [][NextAll]_vars

----------------------------------------------------------------------------
(* Properties of validate-all.                                             *)

IsPrefix(p, q) ==
    Len(p) <= Len(q) /\ SubSeq(q, 1, Len(p)) = p

CanFail(command) ==
    \E o \in ValidationOutcomes(command) : o.kind # "OK"

CanPass(command) ==
    \E o \in ValidationOutcomes(command) : o.kind = "OK"

\* C8 as stated: the validations run in the order validate-environment-yml,
\* validate-rtd-reqs, validate-pyproject-toml.
C8_ListedOrder ==
    result.cmd = "validate-all" =>
        IsPrefix(result.detail,
                 <<"validate-environment-yml", "validate-rtd-reqs", "validate-pyproject-toml">>)

\* C8 amended: the validations run in the order validate-environment-yml,
\* validate-pyproject-toml, validate-rtd-reqs; each starts only after all
\* before it have passed, none starts after a failure, and the error that
\* ends validate-all is that of the first validation failing in this order.
C8_InvokedOrder ==
    result.cmd = "validate-all" =>
        LET order == <<"validate-environment-yml", "validate-pyproject-toml", "validate-rtd-reqs">>
            n == Len(result.detail)
        IN  /\ n >= 1
            /\ IsPrefix(result.detail, order)
            /\ \A i \in 1..(n - 1) : CanPass(order[i])
            /\ (result.kind = "running") = (pc # "idle")
            /\ pc # "idle" => (n < 3 /\ pc = order[n + 1] /\ CanPass(order[n]))
            /\ result.kind = "OK" => (n = 3 /\ CanPass(order[3]))
            /\ result.kind \notin {"running", "OK"} =>
                   \E o \in ValidationOutcomes(order[n]) : o.kind = result.kind /\ o.kind # "OK"

\* C8 witness: validate-all ended on the failure of validate-pyproject-toml
\* although validate-rtd-reqs would have failed too.
C8_Witness ==
    /\ result.cmd = "validate-all"
    /\ pc = "idle"
    /\ result.kind = "MissingBuildRequirement"
    /\ result.detail = <<"validate-environment-yml", "validate-pyproject-toml">>
    /\ CanFail("validate-rtd-reqs")

====
